---- MODULE Spec2Model ----
(***************************************************************************)
(* A model of obspy/io/sac/arrayio.py: the low-level array interface to    *)
(* the SAC binary and ASCII file formats.                                  *)
(*                                                                         *)
(* Values.  A 32-bit header or data element is a signed 32-bit integer: an *)
(* int32 is its own value, a float32 is its IEEE-754 bit pattern read as   *)
(* an int32.  A numeric array is a record [order, vals]: the byte order of *)
(* its dtype ("<" or ">") and its logical elements; its buffer (.data) is  *)
(* ArrBytes.  A string array is a sequence of 8-byte items.  A file is a   *)
(* sequence of bytes 0..255.                                               *)
(***************************************************************************)
EXTENDS Integers, Sequences, FiniteSets, TLC

VARIABLES
    native,     \* sys.byteorder of the interpreter: "little" or "big"
    disk,       \* the binary file: [exists, bytes]
    stream,     \* the caller's open file object on disk: [open, pos, mode]
    arg,        \* the caller's header mapping or header and data arrays
    pc,         \* "idle" between calls, "returned" when a call has just ended
    call        \* the call that has just ended: its arguments and outcome

vars == <<native, disk, stream, arg, pc, call>>

-----------------------------------------------------------------------------
(* Bounds of the model *)

\* the longest data array that is written or stored in a sample file
MaxNpts == 2

\* the longest data array the ASCII specification writes
MaxAsciiNpts == 7

-----------------------------------------------------------------------------
(* Header schema (obspy.io.sac.header) *)

FLOATHDRS ==
    << "delta", "depmin", "depmax", "scale", "odelta", "b", "e", "o", "a",
       "internal0", "t0", "t1", "t2", "t3", "t4", "t5", "t6", "t7", "t8",
       "t9", "f", "resp0", "resp1", "resp2", "resp3", "resp4", "resp5",
       "resp6", "resp7", "resp8", "resp9", "stla", "stlo", "stel", "stdp",
       "evla", "evlo", "evel", "evdp", "mag", "user0", "user1", "user2",
       "user3", "user4", "user5", "user6", "user7", "user8", "user9",
       "dist", "az", "baz", "gcarc", "internal1", "internal2", "depmen",
       "cmpaz", "cmpinc", "xminimum", "xmaximum", "yminimum", "ymaximum",
       "unused6", "unused7", "unused8", "unused9", "unused10", "unused11",
       "unused12" >>

INTHDRS ==
    << "nzyear", "nzjday", "nzhour", "nzmin", "nzsec", "nzmsec", "nvhdr",
       "norid", "nevid", "npts", "nsnpts", "nwfid", "nxsize", "nysize",
       "unused15", "iftype", "idep", "iztype", "unused16", "iinst",
       "istreg", "ievreg", "ievtyp", "iqual", "isynth", "imagtyp",
       "imagsrc", "unused19", "unused20", "unused21", "unused22",
       "unused23", "unused24", "unused25", "unused26", "leven", "lpspol",
       "lovrok", "lcalda", "unused27" >>

STRHDRS ==
    << "kstnm", "kevnm", "kevnm2", "khole", "ko", "ka", "kt0", "kt1", "kt2",
       "kt3", "kt4", "kt5", "kt6", "kt7", "kt8", "kt9", "kf", "kuser0",
       "kuser1", "kuser2", "kcmpnm", "knetwk", "kdatrd", "kinst" >>

\* seq.index(name), as a 1-based position
Index(seq, name) == CHOOSE i \in 1..Len(seq) : seq[i] = name

\* HD.FNULL = -12345.0 as a float32 bit pattern (0xC640E400)
FNULL == -968825856
\* HD.INULL
INULL == -12345
\* HD.SNULL = b'-12345  '
SNULL == <<45, 49, 50, 51, 52, 53, 32, 32>>

-----------------------------------------------------------------------------
(* Bytes and byte order *)

Min(a, b) == IF a < b THEN a ELSE b

\* byte k (0 = least significant) of the two's complement of w
ByteOf(w, k) ==
    CASE k = 0 -> w % 256
      [] k = 1 -> (w \div 256) % 256
      [] k = 2 -> (w \div 65536) % 256
      [] k = 3 -> (w \div 16777216) % 256

\* the int32 whose little-endian bytes are b0 b1 b2 b3
WordOf(b0, b1, b2, b3) ==
    ((IF b3 >= 128 THEN b3 - 256 ELSE b3) * 16777216) + (b2 * 65536) + (b1 * 256) + b0

\* the dtype character of sys.byteorder
NativeChar == IF native = "little" THEN "<" ELSE ">"

\* the order a dtype string denotes: '=' is the native order
Resolve(c) == IF c = "=" THEN NativeChar ELSE c

Swapped(c) == IF c = "<" THEN ">" ELSE "<"

\* a byte order that is not re-derived from the array: always the native one
dtype_byteorder_native(a) == "="

\* numpy's dtype.byteorder: '=' for the native order, else the explicit one
dtype_byteorder(a) == IF a.order = NativeChar THEN "=" ELSE a.order

\* the buffer of a numeric array (ndarray.data)
ArrBytes(a) ==
    [j \in 1..(4 * Len(a.vals)) |->
        LET e == a.vals[((j - 1) \div 4) + 1]
            k == (j - 1) % 4
        IN  ByteOf(e, IF a.order = "<" THEN k ELSE 3 - k)]

\* the elements of a buffer of whole 4-byte items under a byte order
Decode(bytes, order) ==
    [i \in 1..(Len(bytes) \div 4) |->
        IF order = "<"
        THEN WordOf(bytes[4*i - 3], bytes[4*i - 2], bytes[4*i - 1], bytes[4*i])
        ELSE WordOf(bytes[4*i], bytes[4*i - 1], bytes[4*i - 2], bytes[4*i - 3])]

\* the buffer of a string array
HsBytes(hs) ==
    [j \in 1..(8 * Len(hs)) |-> hs[((j - 1) \div 8) + 1][((j - 1) % 8) + 1]]

\* from_buffer(bytes, '|S8') on a buffer of whole 8-byte items
DecodeS8(bytes) ==
    [i \in 1..(Len(bytes) \div 8) |-> SubSeq(bytes, 8*i - 7, 8*i)]

\* from_buffer(bytes, order + 'f4' or 'i4') on a buffer of whole items
from_buffer(bytes, order) == [order |-> Resolve(order), vals |-> Decode(bytes, Resolve(order))]

\* ndarray.newbyteorder('S'): the same bytes under the other order
newbyteorder(a) ==
    [order |-> Swapped(a.order), vals |-> Decode(ArrBytes(a), Swapped(a.order))]

\* a cast that reinterprets the bytes instead of preserving the values
astype_reinterpret(a, order) ==
    [order |-> Resolve(order), vals |-> Decode(ArrBytes(a), Resolve(order))]

\* ndarray.astype(order + 'f4' or 'i4'): the same values, bytes rewritten
astype(a, order) == [order |-> Resolve(order), vals |-> a.vals]

\* None, where an array is expected
NoneArr == [order |-> "None", vals |-> <<>>]

-----------------------------------------------------------------------------
(* init_header_arrays *)

init_hf(byteorder) ==
    [order |-> Resolve(byteorder), vals |-> [i \in 1..70 |-> FNULL]]

\* element i of the null int header: logicals are 0, lcalda is 1
init_hi_item(i) ==
    IF INTHDRS[i] = "lcalda" THEN 1
    ELSE IF SubSeq(INTHDRS[i], 1, 1) = "l" THEN 0
    ELSE INULL

init_hi(byteorder) ==
    [order |-> Resolve(byteorder), vals |-> [i \in 1..40 |-> init_hi_item(i)]]

init_hs == [i \in 1..24 |-> SNULL]

-----------------------------------------------------------------------------
(* is_valid_byteorder *)

\* a validity test without the upper limit
is_valid_byteorder_positive(hi) ==
    0 < hi.vals[Index(INTHDRS, "nvhdr")]

is_valid_byteorder(hi) ==
    LET nvhdr == hi.vals[Index(INTHDRS, "nvhdr")]
    IN  (0 < nvhdr) /\ (nvhdr < 20)

-----------------------------------------------------------------------------
(* Streams *)

\* f.read(n) at position pos: up to n bytes, all the rest when n < 0
f_read(bytes, pos, n) ==
    IF n < 0 THEN SubSeq(bytes, pos + 1, Len(bytes))
    ELSE SubSeq(bytes, pos + 1, Min(pos + n, Len(bytes)))

\* f.write(buf) at position pos: overwrite, extending the file as needed
\* (a gap past the end of the file reads as zeros)
f_write(bytes, pos, buf) ==
    (IF pos <= Len(bytes) THEN SubSeq(bytes, 1, pos)
     ELSE bytes \o [j \in 1..(pos - Len(bytes)) |-> 0])
    \o buf
    \o SubSeq(bytes, pos + Len(buf) + 1, Len(bytes))

\* the outcome of a call: the exception raised ("none" on a normal return),
\* the returned arrays, whether the stream the call worked on is closed at
\* exit, its position at exit, and whether a warning was issued
Outcome(exc, hf, hi, hs, data, closed, pos) ==
    [exc |-> exc, hf |-> hf, hi |-> hi, hs |-> hs, data |-> data,
     closed |-> closed, pos |-> pos]

Raised(exc, closed, pos) ==
    Outcome(exc, NoneArr, NoneArr, <<>>, NoneArr, closed, pos)

-----------------------------------------------------------------------------
(* read_sac *)

\* a size check that only notices a file longer than the header says
size_mismatch_longer(length, npts) ==
    (length - 632 >= 0) /\ ((length - 632) \div 4 >= npts) /\ (length - 632 # 4 * npts)

\* lines 177-178: length != 632 + 4 * int(npts), in Python's unbounded
\* integers
size_mismatch(length, npts) ==
    ((length - 632) % 4 # 0) \/ ((length - 632) \div 4 # npts)

\* lines 162-200: header lengths, size check, data
read_sac_body(bytes, p3, is_file_name, headonly, checksize, hf, hi, hs) ==
    LET endian_str == dtype_byteorder(hi)
    IN
    IF Len(hf.vals) # 70 \/ Len(hi.vals) # 40 \/ Len(hs) # 24
    THEN Raised("SacIOError", ~is_file_name, p3)
    ELSE
    LET npts   == hi.vals[Index(INTHDRS, "npts")]
        length == Len(bytes)
    IN
    IF checksize /\ size_mismatch(length, npts)
    THEN Raised("SacIOError", FALSE, p3)
    ELSE IF headonly
    THEN Outcome("none", hf, hi, hs, NoneArr, is_file_name, p3)
    ELSE
    LET \* f.read(int(npts) * 4), in Python's unbounded integers
        b_data == IF npts < 0 \/ npts > Len(bytes) THEN f_read(bytes, p3, -1)
                  ELSE f_read(bytes, p3, npts * 4)
        p4     == p3 + Len(b_data)
    IN
    IF Len(b_data) % 4 # 0
    THEN Raised("ValueError", FALSE, p4)
    ELSE
    LET data == from_buffer(b_data, endian_str)
    IN
    IF Len(data.vals) # npts
    THEN Raised("SacIOError", TRUE, p4)
    ELSE Outcome("none", hf, hi, hs, data, is_file_name, p4)

\* lines 127-160: byte order, header block, byte-order resolution
read_sac(bytes, pos0, is_file_name, headonly, byteorder, checksize) ==
    LET is_byteorder_specified == byteorder # "None"
        bo == IF is_byteorder_specified THEN byteorder ELSE native
    IN
    IF bo \notin {"little", "big"}
    THEN Raised("ValueError", FALSE, pos0)
    ELSE
    LET endian_str == IF bo = "little" THEN "<" ELSE ">"
        b_hf == f_read(bytes, pos0, 4 * 70)
        p1   == pos0 + Len(b_hf)
        b_hi == f_read(bytes, p1, 4 * 40)
        p2   == p1 + Len(b_hi)
        b_hs == f_read(bytes, p2, 24 * 8)
        p3   == p2 + Len(b_hs)
    IN
    IF Len(b_hf) % 4 # 0 THEN Raised("ValueError", FALSE, p1)
    ELSE IF Len(b_hi) % 4 # 0 THEN Raised("ValueError", FALSE, p2)
    ELSE IF Len(b_hs) % 8 # 0 THEN Raised("ValueError", FALSE, p3)
    ELSE
    LET hf == from_buffer(b_hf, endian_str)
        hi == from_buffer(b_hi, endian_str)
        hs == DecodeS8(b_hs)
    IN
    IF Len(hi.vals) < Index(INTHDRS, "nvhdr")
    THEN Raised("IndexError", FALSE, p3)
    ELSE IF ~is_valid_byteorder(hi)
    THEN IF is_byteorder_specified
         THEN Raised("SacIOError", FALSE, p3)
         ELSE read_sac_body(bytes, p3, is_file_name, headonly, checksize,
                            newbyteorder(hf), newbyteorder(hi), hs)
    ELSE read_sac_body(bytes, p3, is_file_name, headonly, checksize, hf, hi, hs)

-----------------------------------------------------------------------------
(* write_sac *)

\* the outcome of a write: the exception raised, the file afterwards,
\* whether the stream the call worked on is closed at exit, its position at
\* exit, and whether a warning was issued
WOutcome(exc, bytes, closed, pos, warned) ==
    [exc |-> exc, bytes |-> bytes, closed |-> closed, pos |-> pos, warned |-> warned]

\* lines 349-364: the buffers are written one after the other; write number
\* fail_at (none when it is 0) raises, and so does the first write on a
\* stream that is not writable
write_all(bytes, pos, mode, is_file_name, warned, bufs, fail_at) ==
    LET n_ok == IF mode \notin {"rb+", "wb+"} THEN 0
                ELSE IF fail_at = 0 \/ fail_at > Len(bufs) THEN Len(bufs)
                ELSE fail_at - 1
        RECURSIVE put(_, _, _)
        put(b, p, k) ==
            IF k > n_ok THEN [bytes |-> b, pos |-> p]
            ELSE put(f_write(b, p, bufs[k]), p + Len(bufs[k]), k + 1)
        done == put(bytes, pos, 1)
    IN
    IF n_ok < Len(bufs)
    THEN WOutcome("SacIOError", done.bytes, is_file_name, done.pos, warned)
    ELSE WOutcome("none", done.bytes, is_file_name, done.pos, warned)

\* lines 327-364, on the stream f = [pos, mode] over the file content bytes
write_sac(bytes, f, is_file_name, hf, hi, hs, data, byteorder, fail_at) ==
    LET warned == (data = NoneArr) /\ (f.mode # "rb+")
    IN
    IF byteorder # "None" /\ byteorder \notin {"little", "big"}
    THEN WOutcome("ValueError", bytes, FALSE, f.pos, warned)
    ELSE
    LET endian_str == IF byteorder = "little" THEN "<" ELSE ">"
        hf1   == IF byteorder # "None" THEN astype(hf, endian_str) ELSE hf
        hi1   == IF byteorder # "None" THEN astype(hi, endian_str) ELSE hi
        data1 == IF byteorder # "None" /\ data # NoneArr
                 THEN astype(data, endian_str) ELSE data
        bufs  == IF data1 # NoneArr
                 THEN << ArrBytes(hf1), ArrBytes(hi1), HsBytes(hs),
                         ArrBytes(astype(data1, dtype_byteorder(data1))) >>
                 ELSE << ArrBytes(hf1), ArrBytes(hi1), HsBytes(hs) >>
    IN  write_all(bytes, f.pos, f.mode, is_file_name, warned, bufs, fail_at)

\* a header-only write that starts from scratch as well
fmode_truncate(data) == "wb+"

\* lines 310-325 on a path: the mode, and the file as open() leaves it
fmode(data) == IF data = NoneArr THEN "rb+" ELSE "wb+"

opened_bytes(d, mode) == IF mode = "wb+" THEN <<>> ELSE d.bytes

-----------------------------------------------------------------------------
(* Sample arrays and files *)

\* float32 bit patterns of 1.0, 2.5 and -1.0
SampleWord(k) == <<1065353216, 1075838976, -1082130432>>[((k - 1) % 3) + 1]

Orders == {"<", ">"}

SampleData(n, seed, order) ==
    [order |-> order, vals |-> [i \in 1..n |-> SampleWord(i + seed)]]

\* a float header holding delta = 1.0
sample_hf(order) ==
    [order |-> order,
     vals  |-> [i \in 1..70 |-> IF FLOATHDRS[i] = "delta" THEN SampleWord(1) ELSE FNULL]]

\* an int header holding nvhdr and npts
sample_hi(order, nvhdr, npts) ==
    [order |-> order,
     vals  |-> [i \in 1..40 |->
                  IF INTHDRS[i] = "nvhdr" THEN nvhdr
                  ELSE IF INTHDRS[i] = "npts" THEN npts
                  ELSE init_hi_item(i)]]

\* a string header holding kstnm = 'STA'
sample_hs ==
    [i \in 1..24 |-> IF STRHDRS[i] = "kstnm" THEN <<83, 84, 65, 32, 32, 32, 32, 32>> ELSE SNULL]

\* the layout of a binary file
FileBytes(hf, hi, hs, data) ==
    ArrBytes(hf) \o ArrBytes(hi) \o HsBytes(hs) \o ArrBytes(data)

SampleFile(order, nvhdr, n, seed) ==
    FileBytes(sample_hf(order), sample_hi(order, nvhdr, n), sample_hs,
              SampleData(n, seed, order))

\* the files found on disk: every format version 0..20 in both byte orders
\* without data, and version 6 files with data, whole or cut short by one
\* byte, by one data item, or after the int header
SampleFiles ==
    { SampleFile(o, nv, 0, 0) : o \in Orders, nv \in 0..20 }
    \cup
    UNION { { SubSeq(SampleFile(o, 6, n, seed), 1, 632 + 4*n - cut) :
                 o \in Orders, seed \in {0, 1}, cut \in {0, 1, 4, 192 + 4*n} } :
            n \in 0..MaxNpts }

ByteOrderArgs == {"None", "little", "big", "middle"}

NoCall == [op |-> "none"]

\* no header mapping or arrays at hand
NoArg == <<>>

-----------------------------------------------------------------------------
(* The reading specification: a file found on disk is read, by path or     *)
(* through a stream of the caller                                           *)

Init ==
    /\ native \in {"little", "big"}
    /\ disk \in { [exists |-> TRUE, bytes |-> b] : b \in SampleFiles }
    /\ stream = [open |-> FALSE, pos |-> 0, mode |-> "rb"]
    /\ arg = NoArg
    /\ pc = "idle"
    /\ call = NoCall

\* the caller opens the file for reading
OpenStream ==
    /\ pc = "idle"
    /\ ~stream.open
    /\ stream' = [open |-> TRUE, pos |-> 0, mode |-> "rb"]
    /\ UNCHANGED <<native, disk, arg, pc, call>>

\* the caller closes its stream
CloseStream ==
    /\ pc = "idle"
    /\ stream.open
    /\ stream' = [stream EXCEPT !.open = FALSE]
    /\ UNCHANGED <<native, disk, arg, pc, call>>

\* read_sac(path, headonly, byteorder, checksize)
ReadSacPath ==
    /\ pc = "idle"
    /\ disk.exists
    /\ \E headonly \in BOOLEAN, byteorder \in ByteOrderArgs, checksize \in BOOLEAN :
          call' = [op |-> "read_sac", source |-> "path", pos0 |-> 0,
                   headonly |-> headonly, byteorder |-> byteorder,
                   checksize |-> checksize, opened |-> TRUE,
                   out |-> read_sac(disk.bytes, 0, TRUE, headonly, byteorder, checksize)]
    /\ pc' = "returned"
    /\ UNCHANGED <<native, disk, stream, arg>>

\* read_sac(stream, headonly, byteorder, checksize)
ReadSacStream ==
    /\ pc = "idle"
    /\ stream.open
    /\ \E headonly \in BOOLEAN, byteorder \in ByteOrderArgs, checksize \in BOOLEAN :
          LET out == read_sac(disk.bytes, stream.pos, FALSE, headonly, byteorder, checksize)
          IN  /\ call' = [op |-> "read_sac", source |-> "stream", pos0 |-> stream.pos,
                          headonly |-> headonly, byteorder |-> byteorder,
                          checksize |-> checksize, opened |-> FALSE, out |-> out]
              /\ stream' = [stream EXCEPT !.open = ~out.closed, !.pos = out.pos]
    /\ pc' = "returned"
    /\ UNCHANGED <<native, disk, arg>>

\* the caller takes the outcome of the call
Return ==
    /\ pc = "returned"
    /\ pc' = "idle"
    /\ call' = NoCall
    /\ UNCHANGED <<native, disk, stream, arg>>

Next ==
    \/ OpenStream
    \/ CloseStream
    \/ ReadSacPath
    \/ ReadSacStream
    \/ Return

Spec == Init /\ [][Next]_vars

-----------------------------------------------------------------------------
(* Properties of read_sac, checked under Spec *)

ReadReturned == pc = "returned" /\ call.op = "read_sac"

OrderName(c) == IF c = "<" THEN "little" ELSE "big"

\* the int header of a file, decoded in a byte order
FileHi(bytes, order) == Decode(SubSeq(bytes, 281, 440), order)
FileNvhdr(bytes, order) == FileHi(bytes, order)[Index(INTHDRS, "nvhdr")]
FileNpts(bytes, order) == FileHi(bytes, order)[Index(INTHDRS, "npts")]

\* len = 632 + 4 * npts
IsSize(len, npts) == ((len - 632) % 4 = 0) /\ ((len - 632) \div 4 = npts)

\* the file was written in this byte order: its header is complete and its
\* format version, decoded in that order, lies in 1..19
WrittenIn(bytes, order) ==
    /\ Len(bytes) >= 632
    /\ FileNvhdr(bytes, order) \in 1..19

\* a whole file in this byte order: the header and exactly npts data items
WholeFile(bytes, order) ==
    /\ WrittenIn(bytes, order)
    /\ FileNpts(bytes, order) >= 0
    /\ IsSize(Len(bytes), FileNpts(bytes, order))

\* a file one byte shorter than 632 + 4 * npts, npts taken from its header
OneByteShort(bytes, order) ==
    /\ Len(bytes) >= 440
    /\ FileNvhdr(bytes, order) \in 1..19
    /\ FileNpts(bytes, order) >= 0
    /\ IsSize(Len(bytes) + 1, FileNpts(bytes, order))

\* C1: whenever read_sac was given a stream of the caller, that stream is
\* still open when the call returns or raises.
C1_CallerStreamLeftOpen ==
    (ReadReturned /\ call.source = "stream") => stream.open

\* C2: whenever a call opened the stream itself (it was given a path), the
\* stream is closed when the call returns or raises.
C2_OwnStreamClosed ==
    (pc = "returned" /\ call.op # "none" /\ call.opened) => call.out.closed

\* C3: reading a file from its start with the byte order pinned to the
\* opposite of the order it was written in (format version in 1..19 in the
\* written order) raises SacIOError and returns no arrays.
C3_WrongByteorderFails ==
    \A o \in Orders :
        ( /\ ReadReturned
          /\ call.pos0 = 0
          /\ WrittenIn(disk.bytes, o)
          /\ call.byteorder = OrderName(Swapped(o)) )
        => ( /\ call.out.exc = "SacIOError"
             /\ call.out.hf = NoneArr
             /\ call.out.hi = NoneArr
             /\ call.out.hs = <<>>
             /\ call.out.data = NoneArr )

C3_Witness ==
    /\ ReadReturned
    /\ call.pos0 = 0
    /\ WholeFile(disk.bytes, ">")
    /\ FileNvhdr(disk.bytes, ">") = 19
    /\ call.byteorder = "little"
    /\ call.out.exc = "SacIOError"

\* the little-endian-written copy of a whole big-endian file
LittleCopy(bytes) ==
    LET n == FileNpts(bytes, ">")
    IN  FileBytes([order |-> "<", vals |-> Decode(SubSeq(bytes, 1, 280), ">")],
                  [order |-> "<", vals |-> FileHi(bytes, ">")],
                  DecodeS8(SubSeq(bytes, 441, 632)),
                  [order |-> "<", vals |-> Decode(SubSeq(bytes, 633, 632 + 4*n), ">")])

\* C4: a whole big-endian file (format version in 1..19) read with no
\* byteorder hint returns the same hf, hi, hs and data values as its
\* little-endian-written copy read with byteorder='little'; the header
\* arrays keep the bytes of the file, and the data is decoded in the order
\* of the resolved int header.
C4_AutoDetect ==
    ( /\ ReadReturned
      /\ call.pos0 = 0
      /\ call.byteorder = "None"
      /\ WholeFile(disk.bytes, ">") )
    => LET ref == read_sac(LittleCopy(disk.bytes), 0, TRUE, call.headonly,
                           "little", call.checksize)
           out == call.out
       IN  /\ out.exc = "none"
           /\ ref.exc = "none"
           /\ out.hf.vals = ref.hf.vals
           /\ out.hi.vals = ref.hi.vals
           /\ out.hs = ref.hs
           /\ out.data.vals = ref.data.vals
           /\ ArrBytes(out.hf) = SubSeq(disk.bytes, 1, 280)
           /\ ArrBytes(out.hi) = SubSeq(disk.bytes, 281, 440)
           /\ out.hi.order = ">"
           /\ ~call.headonly => out.data.order = out.hi.order

C4_Witness ==
    /\ ReadReturned
    /\ native = "little"
    /\ call.pos0 = 0
    /\ call.byteorder = "None"
    /\ ~call.headonly
    /\ WholeFile(disk.bytes, ">")
    /\ call.out.exc = "none"
    /\ Len(call.out.data.vals) = MaxNpts
    /\ call.out.data.vals = SampleData(MaxNpts, 1, ">").vals

\* a read of a file one byte short from its start, with the byte order left
\* open or pinned to the order of the file
ReadOfShortFile(o) ==
    /\ ReadReturned
    /\ call.pos0 = 0
    /\ OneByteShort(disk.bytes, o)
    /\ call.byteorder \in {"None", OrderName(o)}

\* C5 as stated, for a file that holds data (npts >= 1): a file one byte
\* shorter than 632 + 4*npts fails with SacIOError under checksize=True, and
\* the same call with checksize=False returns without raising.
C5_AsStated ==
    \A o \in Orders :
        (ReadOfShortFile(o) /\ FileNpts(disk.bytes, o) >= 1)
        => /\ call.checksize => call.out.exc = "SacIOError"
           /\ ~call.checksize => call.out.exc = "none"

\* C5 as amended: a file with npts >= 1 one byte shorter than 632 + 4*npts
\* fails with SacIOError under checksize=True; under checksize=False it
\* returns the header arrays (and no data) when headonly=True, and raises
\* when headonly=False, because the data block is short.
C5_SizeCheck ==
    \A o \in Orders :
        (ReadOfShortFile(o) /\ FileNpts(disk.bytes, o) >= 1)
        => /\ call.checksize => call.out.exc = "SacIOError"
           /\ (~call.checksize /\ call.headonly)
                 => /\ call.out.exc = "none"
                    /\ Len(call.out.hf.vals) = 70
                    /\ Len(call.out.hi.vals) = 40
                    /\ Len(call.out.hs) = 24
                    /\ call.out.hi.vals = FileHi(disk.bytes, o)
                    /\ call.out.data = NoneArr
           /\ (~call.checksize /\ ~call.headonly) => call.out.exc # "none"

C5_Witness ==
    /\ ReadOfShortFile("<")
    /\ FileNpts(disk.bytes, "<") = MaxNpts
    /\ call.checksize
    /\ call.headonly
    /\ call.out.exc = "SacIOError"

-----------------------------------------------------------------------------
(* The writing specification: one write_sac call on a destination, by path *)
(* or through a stream of the caller, and read_sac of the path after it     *)

\* the byte orders of the arrays hf, hi and data a caller passes
WriteOrders ==
    { <<"<", "<", "<">>, <<">", ">", ">">>, <<">", "<", "<">>, <<"<", "<", ">">> }

\* the data arrays a caller passes; None for a header-only write
WriteDatas(order) ==
    { SampleData(n, seed, order) : n \in 0..MaxNpts, seed \in {0, 1} } \cup {NoneArr}

\* the destinations found on disk: none, whole little-endian files, and a
\* file that ends after the int header
WriteDisks ==
    { [exists |-> FALSE, bytes |-> <<>>] }
    \cup { [exists |-> TRUE, bytes |-> SampleFile("<", 6, n, 0)] : n \in 0..MaxNpts }
    \cup { [exists |-> TRUE, bytes |-> SubSeq(SampleFile("<", 6, 0, 0), 1, 440)] }

\* the streams a caller passes: the mode it opened the file in and the
\* position it left the stream at
WriteStreams ==
    { [mode |-> "rb+", pos |-> 0], [mode |-> "rb+", pos |-> 4],
      [mode |-> "wb+", pos |-> 0], [mode |-> "rb", pos |-> 0] }

InitWrite ==
    /\ native \in {"little", "big"}
    /\ disk \in WriteDisks
    /\ stream = [open |-> FALSE, pos |-> 0, mode |-> "rb"]
    /\ arg = NoArg
    /\ pc = "idle"
    /\ call = NoCall

\* the caller opens the destination and seeks
WOpenStream ==
    /\ pc = "idle"
    /\ ~stream.open
    /\ \E s \in WriteStreams :
          /\ disk.exists \/ s.mode = "wb+"
          /\ stream' = [open |-> TRUE, pos |-> s.pos, mode |-> s.mode]
          /\ disk' = [exists |-> TRUE, bytes |-> opened_bytes(disk, s.mode)]
    /\ UNCHANGED <<native, arg, pc, call>>

\* the record of a write_sac call
WriteCall(dest, f, opened, hf, hi, hs, data, byteorder, out) ==
    [op |-> "write_sac", source |-> dest, pos0 |-> f.pos, mode |-> f.mode,
     opened |-> opened, hf |-> hf, hi |-> hi, hs |-> hs, data |-> data,
     byteorder |-> byteorder, before |-> disk, out |-> out]

\* write_sac(path, hf, hi, hs, data, byteorder)
WriteSacPath ==
    /\ pc = "idle"
    /\ ~stream.open
    /\ \E o \in WriteOrders, npts \in 0..MaxNpts, byteorder \in ByteOrderArgs,
          fail_at \in {0, 3} :
       \E data \in WriteDatas(o[3]) :
          LET hf == sample_hf(o[1])
              hi == sample_hi(o[2], 6, npts)
              f  == [pos |-> 0, mode |-> fmode(data)]
          IN
          /\ data # NoneArr => npts = Len(data.vals)
          /\ IF f.mode = "rb+" /\ ~disk.exists
             THEN \* open() raises IOError: "Cannot open file"
                  /\ call' = WriteCall("path", f, FALSE, hf, hi, sample_hs, data, byteorder,
                                       WOutcome("SacIOError", disk.bytes, TRUE, 0, FALSE))
                  /\ disk' = disk
             ELSE LET out == write_sac(opened_bytes(disk, f.mode), f, TRUE,
                                       hf, hi, sample_hs, data, byteorder, fail_at)
                  IN  /\ call' = WriteCall("path", f, TRUE, hf, hi, sample_hs, data,
                                           byteorder, out)
                      /\ disk' = [exists |-> TRUE, bytes |-> out.bytes]
    /\ pc' = "returned"
    /\ UNCHANGED <<native, stream, arg>>

\* write_sac(stream, hf, hi, hs, data, byteorder)
WriteSacStream ==
    /\ pc = "idle"
    /\ stream.open
    /\ \E o \in WriteOrders, npts \in 0..MaxNpts, byteorder \in ByteOrderArgs,
          fail_at \in {0, 3} :
       \E data \in WriteDatas(o[3]) :
          LET hf  == sample_hf(o[1])
              hi  == sample_hi(o[2], 6, npts)
              f   == [pos |-> stream.pos, mode |-> stream.mode]
              out == write_sac(disk.bytes, f, FALSE, hf, hi, sample_hs, data,
                               byteorder, fail_at)
          IN
          /\ data # NoneArr => npts = Len(data.vals)
          /\ call' = WriteCall("stream", f, FALSE, hf, hi, sample_hs, data, byteorder, out)
          /\ disk' = [exists |-> TRUE, bytes |-> out.bytes]
          /\ stream' = [stream EXCEPT !.open = ~out.closed, !.pos = out.pos]
    /\ pc' = "returned"
    /\ UNCHANGED <<native, arg>>

\* read_sac(path) after the write
ReadBack ==
    /\ pc = "returned"
    /\ call.op = "write_sac"
    /\ disk.exists
    /\ call' = [op |-> "read_sac", source |-> "path", pos0 |-> 0,
                headonly |-> FALSE, byteorder |-> "None", checksize |-> FALSE,
                opened |-> TRUE, after |-> call,
                out |-> read_sac(disk.bytes, 0, TRUE, FALSE, "None", FALSE)]
    /\ pc' = "readback"
    /\ UNCHANGED <<native, disk, stream, arg>>

NextWrite ==
    \/ WOpenStream
    \/ WriteSacPath
    \/ WriteSacStream
    \/ ReadBack

SpecWrite == InitWrite /\ [][NextWrite]_vars

-----------------------------------------------------------------------------
(* Header values, as the dictionary converters see them                    *)
(*                                                                         *)
(* A Python float is [f32, exact]: the bit pattern of the nearest float32  *)
(* and whether the float equals it.  A Python number given for an int      *)
(* field is [i, integral]: its integer part and whether it is an integer.  *)
(* A string is a sequence of ASCII codes.  A mapping is the sequence of    *)
(* its items [key, val], in iteration order.                               *)

InSeq(x, seq) == \E i \in 1..Len(seq) : seq[i] = x

Item(key, val) == [key |-> key, val |-> val]

Keys(items) == { items[i].key : i \in 1..Len(items) }

\* mapping[key], for a key of the mapping
Lookup(items, key) == items[CHOOSE i \in 1..Len(items) : items[i].key = key].val

\* an item of a '|S8' array that takes a string: cut to 8 bytes, NUL-padded
S8Store(str) == [i \in 1..8 |-> IF i <= Len(str) THEN str[i] ELSE 0]

\* an item read from a '|S8' array: trailing NULs are dropped
RECURSIVE S8Item(_)
S8Item(item) ==
    IF Len(item) > 0 /\ item[Len(item)] = 0
    THEN S8Item(SubSeq(item, 1, Len(item) - 1))
    ELSE item

\* value[a:b]
Slice(str, a, b) == SubSeq(str, a + 1, Min(b, Len(str)))

\* '{:<8s}'.format(str)
Pad8(str) == str \o [i \in 1..(8 - Len(str)) |-> 32]

-----------------------------------------------------------------------------
(* dict_to_header_arrays *)

\* lines 502-508: kevnm is split into two padded 8-character fields
kevnm_split(acc, value) ==
    [acc EXCEPT !.hs[2] = S8Store(Pad8(Slice(value, 0, 8))),
                !.hs[3] = S8Store(Pad8(Slice(value, 8, 16)))]

\* lines 493-515: one item of the mapping is put into the arrays acc
dict_put(acc, hdr, value) ==
    IF InSeq(hdr, FLOATHDRS)
    THEN [acc EXCEPT !.hf.vals[Index(FLOATHDRS, hdr)] = value.f32]
    ELSE IF InSeq(hdr, INTHDRS)
    THEN [acc EXCEPT !.hi.vals[Index(INTHDRS, hdr)] = value.i,
                     !.warned = acc.warned \/ ~value.integral]
    ELSE IF InSeq(hdr, STRHDRS)
    THEN IF hdr = "kevnm"
         THEN kevnm_split(acc, value)
         ELSE [acc EXCEPT !.hs[Index(STRHDRS, hdr)] = S8Store(value)]
    ELSE [acc EXCEPT !.exc = "ValueError"]

RECURSIVE dict_fill(_, _, _)
dict_fill(items, k, acc) ==
    IF k > Len(items) \/ acc.exc # "none" THEN acc
    ELSE dict_fill(items, k + 1, dict_put(acc, items[k].key, items[k].val))

\* lines 488-517, on the items of the mapping
dict_to_header_arrays(items, byteorder) ==
    dict_fill(items, 1,
              [exc |-> "none", warned |-> FALSE, hf |-> init_hf(byteorder),
               hi |-> init_hi(byteorder), hs |-> init_hs])

-----------------------------------------------------------------------------
(* header_arrays_to_dict *)

\* the values the mapping gets from the arrays
FloatVal(bits) == [f32 |-> bits, exact |-> TRUE]
IntVal(n) == [i |-> n, integral |-> TRUE]

\* a converter that returns the null values as well
keep_all(nulls, val, null) == TRUE

\* lines 451-462: an entry is kept if nulls is set or its value is not the
\* null value of its array
keep(nulls, val, null) == nulls \/ val # null

\* lines 451-462: the items of one array, in schema order; the items of hs
\* are the strings of its fields
items_of(names, vals, null, nulls) ==
    SelectSeq([k \in 1..Min(Len(names), Len(vals)) |-> Item(names[k], vals[k])],
              LAMBDA it : keep(nulls, it.val, null))

\* an item as the mapping holds it
ItemVal(it) ==
    IF InSeq(it.key, FLOATHDRS) THEN Item(it.key, FloatVal(it.val))
    ELSE IF InSeq(it.key, INTHDRS) THEN Item(it.key, IntVal(it.val))
    ELSE it

\* lines 466-474: kevnm2 is appended to kevnm, or renamed to kevnm
merge_kevnm(items) ==
    IF "kevnm2" \in Keys(items)
    THEN IF "kevnm" \in Keys(items)
         THEN SelectSeq([k \in 1..Len(items) |->
                           IF items[k].key = "kevnm"
                           THEN Item("kevnm", items[k].val \o Lookup(items, "kevnm2"))
                           ELSE items[k]],
                        LAMBDA it : it.key # "kevnm2")
         ELSE [k \in 1..Len(items) |->
                 IF items[k].key = "kevnm2"
                 THEN Item("kevnm", items[k].val) ELSE items[k]]
    ELSE items

\* lines 451-476
header_arrays_to_dict(hf, hi, hs, nulls) ==
    LET items == items_of(FLOATHDRS, hf.vals, FNULL, nulls)
                 \o items_of(INTHDRS, hi.vals, INULL, nulls)
                 \o items_of(STRHDRS, [k \in 1..Len(hs) |-> S8Item(hs[k])], SNULL, nulls)
    IN  merge_kevnm([k \in 1..Len(items) |-> ItemVal(items[k])])

-----------------------------------------------------------------------------
(* The converter specification: a header mapping is turned into arrays,    *)
(* and the arrays into a mapping again                                      *)

\* a value of the mapping, or no item for the key
Given(v) == [present |-> TRUE, val |-> v]
Absent(v) == [present |-> FALSE, val |-> v]

\* 'EVENTNAM', 'E2SECOND', 'EV', 'STA', 'LONGNAME9'
Name8a == <<69, 86, 69, 78, 84, 78, 65, 77>>
Name8b == <<69, 50, 83, 69, 67, 79, 78, 68>>
NameEV == <<69, 86>>
NameSTA == <<83, 84, 65>>
Name9 == <<76, 79, 78, 71, 78, 65, 77, 69, 57>>

\* delta: 1.0, a float that float32 rounds to 1.0, the null value, or absent
DeltaChoices ==
    { Absent(FloatVal(FNULL)), Given(FloatVal(SampleWord(1))),
      Given([f32 |-> SampleWord(1), exact |-> FALSE]), Given(FloatVal(FNULL)) }

\* npts: 3, 2.7 (stored as 2), the null value, or absent
NptsChoices ==
    { Absent(IntVal(INULL)), Given(IntVal(3)),
      Given([i |-> 2, integral |-> FALSE]), Given(IntVal(INULL)) }

\* leven: 0, 1, the null value, or absent
LevenChoices ==
    { Absent(IntVal(INULL)), Given(IntVal(0)), Given(IntVal(1)), Given(IntVal(INULL)) }

\* kstnm: 'STA', a name of 9 characters, the null value, or absent
KstnmChoices ==
    { Absent(SNULL), Given(NameSTA), Given(Name9), Given(SNULL) }

\* kevnm: names of 0, 2, 6, 8, 10, 16 and 17 characters, among them the null
\* value, '-12345', and names with the null value as one half; or absent
KevnmChoices ==
    { Absent(SNULL), Given(<<>>), Given(NameEV), Given(SubSeq(SNULL, 1, 6)),
      Given(Name8a), Given(SNULL), Given(Name8a \o NameEV), Given(Name8a \o Name8b),
      Given(SNULL \o Name8b), Given(Name8a \o SNULL), Given(Name8a \o Name8b \o NameEV) }

\* kevnm2: 'EV', or absent
Kevnm2Choices == { Absent(SNULL), Given(NameEV) }

\* a key of no schema: present or absent
BogusChoices == { Absent(IntVal(0)), Given(IntVal(0)) }

\* the mapping of the chosen items, in key order
Mapping(keys, choices) ==
    LET RECURSIVE build(_)
        build(k) == IF k > Len(keys) THEN <<>>
                    ELSE (IF choices[k].present
                          THEN << Item(keys[k], choices[k].val) >> ELSE <<>>)
                         \o build(k + 1)
    IN  build(1)

InitDict ==
    /\ native \in {"little", "big"}
    /\ disk = [exists |-> FALSE, bytes |-> <<>>]
    /\ stream = [open |-> FALSE, pos |-> 0, mode |-> "rb"]
    /\ \E d \in DeltaChoices, n \in NptsChoices, l \in LevenChoices,
          s \in KstnmChoices, e \in KevnmChoices, e2 \in Kevnm2Choices,
          b \in BogusChoices :
          arg = Mapping(<<"delta", "npts", "leven", "kstnm", "kevnm", "kevnm2", "bogus">>,
                        <<d, n, l, s, e, e2, b>>)
    /\ pc = "idle"
    /\ call = NoCall

\* dict_to_header_arrays(header)
DictToHeaderArrays ==
    /\ pc = "idle"
    /\ call' = [op |-> "dict_to_header_arrays", header |-> arg,
                out |-> dict_to_header_arrays(arg, "=")]
    /\ pc' = "returned"
    /\ UNCHANGED <<native, disk, stream, arg>>

\* header_arrays_to_dict(hf, hi, hs, nulls) on the arrays just returned
HeaderArraysToDict ==
    /\ pc = "returned"
    /\ call.op = "dict_to_header_arrays"
    /\ call.out.exc = "none"
    /\ \E nulls \in BOOLEAN :
          call' = [op |-> "header_arrays_to_dict", nulls |-> nulls,
                   header |-> call.header, arrays |-> call.out,
                   out |-> header_arrays_to_dict(call.out.hf, call.out.hi,
                                                 call.out.hs, nulls)]
    /\ pc' = "converted"
    /\ UNCHANGED <<native, disk, stream, arg>>

NextDict == DictToHeaderArrays \/ HeaderArraysToDict

SpecDict == InitDict /\ [][NextDict]_vars

-----------------------------------------------------------------------------
(* Properties of write_sac, checked under SpecWrite *)

\* a header-only write_sac call on an existing destination has just ended
HeaderOnlyWritten ==
    /\ pc = "returned"
    /\ call.op = "write_sac"
    /\ call.data = NoneArr
    /\ call.before.exists

\* the size and the bytes from offset 632 on are as before the call
DataRegionKept ==
    /\ Len(disk.bytes) = Len(call.before.bytes)
    /\ SubSeq(disk.bytes, 633, Len(disk.bytes))
         = SubSeq(call.before.bytes, 633, Len(call.before.bytes))

\* C6 as stated, for a destination that holds a whole header: after a
\* header-only write to an existing destination, given as a path or as a
\* stream at any position, the size of the destination and its bytes at
\* offsets >= 632 are as before the call.
C6_AsStated ==
    (HeaderOnlyWritten /\ Len(call.before.bytes) >= 632) => DataRegionKept

\* C6 as amended: after a header-only write to an existing destination that
\* holds at least 632 bytes, given as a path or as a stream positioned at
\* offset 0, the size of the destination and its bytes at offsets >= 632 are
\* as before the call.
C6_HeaderOnlyKeepsData ==
    ( /\ HeaderOnlyWritten
      /\ Len(call.before.bytes) >= 632
      /\ call.pos0 = 0 )
    => DataRegionKept

C6_Witness ==
    /\ HeaderOnlyWritten
    /\ call.source = "path"
    /\ call.out.exc = "none"
    /\ Len(call.before.bytes) = 632 + 4 * MaxNpts
    /\ SubSeq(disk.bytes, 1, 632) # SubSeq(call.before.bytes, 1, 632)
    /\ DataRegionKept

\* the array as write_sac puts it out under a byteorder argument
Output(a, byteorder) ==
    IF byteorder = "None" THEN a
    ELSE [order |-> IF byteorder = "little" THEN "<" ELSE ">", vals |-> a.vals]

\* write_sac(path, hf, hi, hs, data, byteorder) has returned, with nvhdr in
\* 1..19 and npts = len(data), and read_sac(path) after it has ended
RoundTripDone ==
    /\ pc = "readback"
    /\ call.after.source = "path"
    /\ call.after.data # NoneArr
    /\ call.after.byteorder \in {"None", "little", "big"}
    /\ call.after.out.exc = "none"
    /\ call.after.hi.vals[Index(INTHDRS, "nvhdr")] \in 1..19
    /\ call.after.hi.vals[Index(INTHDRS, "npts")] = Len(call.after.data.vals)

\* read_sac returned the values written, and the file holds hf, hi, hs and
\* data at their offsets
RoundTripHolds ==
    LET w == call.after
        n == Len(w.data.vals)
    IN  /\ call.out.exc = "none"
        /\ call.out.hf.vals = w.hf.vals
        /\ call.out.hi.vals = w.hi.vals
        /\ call.out.hs = w.hs
        /\ call.out.data.vals = w.data.vals
        /\ Len(disk.bytes) = 632 + 4 * n
        /\ SubSeq(disk.bytes, 1, 280) = ArrBytes(Output(w.hf, w.byteorder))
        /\ SubSeq(disk.bytes, 281, 440) = ArrBytes(Output(w.hi, w.byteorder))
        /\ SubSeq(disk.bytes, 441, 632) = HsBytes(w.hs)
        /\ SubSeq(disk.bytes, 633, 632 + 4 * n) = ArrBytes(Output(w.data, w.byteorder))

\* C7 as stated: for every header triple with nvhdr in 1..19 and
\* npts = len(data) and each output byteorder (none, little, big), write_sac
\* to a path followed by read_sac returns the values written, and the file
\* holds hf, hi, hs and data at offsets 0, 280, 440 and 632.
C7_AsStated == RoundTripDone => RoundTripHolds

\* C7 as amended: the same, provided that hf, hi and data are stored in one
\* byte order whenever no output byteorder is given.
C7_RoundTrip ==
    ( /\ RoundTripDone
      /\ \/ call.after.byteorder # "None"
         \/ /\ call.after.hf.order = call.after.hi.order
            /\ call.after.data.order = call.after.hi.order )
    => RoundTripHolds

C7_Witness ==
    /\ RoundTripDone
    /\ native = "little"
    /\ call.after.byteorder = "big"
    /\ call.after.hf.order = "<"
    /\ Len(call.after.data.vals) = MaxNpts
    /\ call.out.exc = "none"
    /\ call.out.data.vals = call.after.data.vals
    /\ call.out.hi.order = ">"

-----------------------------------------------------------------------------
(* float32 values, by their bit patterns *)

\* the pattern without its sign bit
F32Mag(bits) == IF bits >= 0 THEN bits ELSE bits + 2147483647 + 1

F32IsNaN(bits) == F32Mag(bits) > 2139095040

\* an integer that orders the numbers as their values do; -0.0 and 0.0 agree
F32Key(bits) == IF bits >= 0 THEN bits ELSE -F32Mag(bits)

\* x == y
F32Eq(x, y) == ~F32IsNaN(x) /\ ~F32IsNaN(y) /\ F32Key(x) = F32Key(y)

\* x >= 0.0
F32GeZero(x) == ~F32IsNaN(x) /\ F32Key(x) >= 0

RECURSIVE Pow2(_)
Pow2(n) == IF n = 0 THEN 1 ELSE 2 * Pow2(n - 1)

\* four times the value, for a number that is a multiple of 1/4 below 2^27
Quarters(bits) ==
    LET e == F32Mag(bits) \div 8388608
        m == 8388608 + (F32Mag(bits) % 8388608)
        q == IF e = 0 THEN 0
             ELSE IF e >= 148 THEN m * Pow2(e - 148)
             ELSE m \div Pow2(148 - e)
    IN  IF bits >= 0 THEN q ELSE -q

\* a and d scaled so that 2^23 <= a/d < 2^24, with the power of two applied
RECURSIVE Scale(_, _, _)
Scale(a, d, s) ==
    IF a >= d * 16777216 THEN Scale(a, 2 * d, s - 1)
    ELSE IF a < d * 8388608 THEN Scale(2 * a, d, s + 1)
    ELSE [a |-> a, d |-> d, s |-> s]

\* the float32 nearest to num/den, ties to even
F32Round(num, den) ==
    IF num = 0 THEN 0
    ELSE LET sc == Scale(IF num < 0 THEN -num ELSE num, den, 0)
             q  == sc.a \div sc.d
             r  == sc.a % sc.d
             m  == IF 2 * r > sc.d \/ (2 * r = sc.d /\ q % 2 = 1) THEN q + 1 ELSE q
             mag == (150 - sc.s) * 8388608 + (m - 8388608)
         IN  IF num < 0 THEN (mag - 2147483647) - 1 ELSE mag

\* data.min(), data.max(), data.mean() of a float32 array that is not empty
data_min(vals) ==
    CHOOSE x \in {vals[i] : i \in 1..Len(vals)} :
        \A i \in 1..Len(vals) : F32Key(x) <= F32Key(vals[i])

data_max(vals) ==
    CHOOSE x \in {vals[i] : i \in 1..Len(vals)} :
        \A i \in 1..Len(vals) : F32Key(x) >= F32Key(vals[i])

RECURSIVE SumQuarters(_, _)
SumQuarters(vals, k) ==
    IF k > Len(vals) THEN 0 ELSE Quarters(vals[k]) + SumQuarters(vals, k + 1)

data_mean(vals) == F32Round(SumQuarters(vals, 1), 4 * Len(vals))

-----------------------------------------------------------------------------
(* validate_sac_content and what it calls *)

\* hf[HD.FLOATHDRS.index(name)], hi[HD.INTHDRS.index(name)]
hf_get(hf, name) == hf.vals[Index(FLOATHDRS, name)]
hi_get(hi, name) == hi.vals[Index(INTHDRS, name)]

\* line 552
ALL == <<"delta", "logicals", "data_hdrs", "enums", "reftime", "reltime">>

\* the keys of HD.ACCEPTED_VALS
EnumHdrs ==
    <<"iftype", "idep", "iztype", "ievtyp", "iqual", "isynth", "imagtyp", "imagsrc">>

\* the enumerated values HD.ACCEPTED_VALS accepts for a field, as ints
AcceptedInts(hdr) ==
    CASE hdr = "iftype"  -> {1, 2, 3, 4, 51}
      [] hdr = "idep"    -> {5, 6, 7, 8, 50}
      [] hdr = "iztype"  -> {5} \cup (9..22)
      [] hdr = "ievtyp"  -> {5} \cup (37..44) \cup (71..97)
      [] hdr = "iqual"   -> 44..48
      [] hdr = "isynth"  -> {49}
      [] hdr = "imagtyp" -> 52..57
      [] hdr = "imagsrc" -> 58..70

\* util.is_valid_enum_int
is_valid_enum_int(hdr, val, allow_null) ==
    val \in AcceptedInts(hdr) \/ (allow_null /\ val = INULL)

\* UTCDateTime(year, julday, hour, minute, second, microsecond) is constructed
\* and raises no ValueError
UTCDateTime_ok(year, julday, hour, minute, second, microsecond) ==
    LET leap == year % 4 = 0 /\ (year % 100 # 0 \/ year % 400 = 0)
    IN  /\ year \in 1..9999
        /\ julday \in 1..(IF leap THEN 366 ELSE 365)
        /\ hour \in 0..23
        /\ minute \in 0..59
        /\ second \in 0..59
        /\ microsecond \in 0..999999

\* lines 563-567
check_delta(hf) ==
    IF ~F32GeZero(hf_get(hf, "delta")) THEN "SacInvalidContentError" ELSE "none"

\* lines 569-574
check_logicals(hi) ==
    IF \E hdr \in {"leven", "lpspol", "lovrok", "lcalda"} :
           hi_get(hi, hdr) \notin {0, 1, INULL}
    THEN "SacInvalidContentError" ELSE "none"

\* a data test that does not look at the mean
check_data_hdrs_no_mean(hf, data) ==
    IF data = NoneArr \/ Len(data.vals) = 0 THEN "ValueError"
    ELSE IF /\ F32Eq(hf_get(hf, "depmin"), data_min(data.vals))
            /\ F32Eq(hf_get(hf, "depmax"), data_max(data.vals))
         THEN "none" ELSE "SacInvalidContentError"

\* lines 576-587: data None has no min (AttributeError), an empty array has
\* no minimum (ValueError); both are raised again as ValueError
check_data_hdrs(hf, data) ==
    IF data = NoneArr \/ Len(data.vals) = 0 THEN "ValueError"
    ELSE IF /\ F32Eq(hf_get(hf, "depmin"), data_min(data.vals))
            /\ F32Eq(hf_get(hf, "depmax"), data_max(data.vals))
            /\ F32Eq(hf_get(hf, "depmen"), data_mean(data.vals))
         THEN "none" ELSE "SacInvalidContentError"

\* lines 589-594
check_enums(hi) ==
    IF \E k \in 1..Len(EnumHdrs) :
           ~is_valid_enum_int(EnumHdrs[k], hi_get(hi, EnumHdrs[k]), TRUE)
    THEN "SacInvalidContentError" ELSE "none"

\* lines 596-615
check_reftime(hi) ==
    IF \E hdr \in {"nzyear", "nzjday", "nzhour", "nzmin", "nzsec", "nzmsec"} :
           hi_get(hi, hdr) = INULL
    THEN "SacInvalidContentError"
    ELSE IF UTCDateTime_ok(hi_get(hi, "nzyear"), hi_get(hi, "nzjday"),
                           hi_get(hi, "nzhour"), hi_get(hi, "nzmin"),
                           hi_get(hi, "nzsec"), hi_get(hi, "nzmsec"))
    THEN "none" ELSE "SacInvalidContentError"

\* lines 621-628: the name hdr is bound to, or the exception of the lookup.
\* The name val is bound nowhere in the function under Python 3 (NameError);
\* under Python 2 the list comprehension of line 605 leaves its last element,
\* nzmsec, in val when the reftime test has run.  The name hdr keeps the value
\* the loops of lines 570 and 590 left in it.
reltime_hdr(hi, python, ran) ==
    LET iztype_val == hi_get(hi, "iztype")
        val == hi_get(hi, "nzmsec")
    IN  IF iztype_val = 9 THEN [exc |-> "none", hdr |-> "b"]
        ELSE IF iztype_val = 11 THEN [exc |-> "none", hdr |-> "o"]
        ELSE IF python = 3 \/ ~InSeq("reftime", ran)
             THEN [exc |-> "NameError", hdr |-> ""]
        ELSE IF val = 12 THEN [exc |-> "none", hdr |-> "a"]
        ELSE IF val \in 13..22 THEN [exc |-> "none", hdr |-> "it"]
        ELSE IF InSeq("enums", ran)
             THEN [exc |-> "none", hdr |-> EnumHdrs[Len(EnumHdrs)]]
        ELSE IF InSeq("logicals", ran) THEN [exc |-> "none", hdr |-> "lcalda"]
        ELSE [exc |-> "NameError", hdr |-> ""]

\* lines 617-636: the reference is looked up in hi, at the position the name
\* has in HD.FLOATHDRS
check_reltime(hf, hi, python, ran) ==
    IF is_valid_enum_int("iztype", hi_get(hi, "iztype"), FALSE)
    THEN LET sel == reltime_hdr(hi, python, ran)
         IN  IF sel.exc # "none" THEN sel.exc
             ELSE IF ~InSeq(sel.hdr, FLOATHDRS) THEN "ValueError"
             ELSE IF Index(FLOATHDRS, sel.hdr) > Len(hi.vals) THEN "IndexError"
             ELSE IF hi.vals[Index(FLOATHDRS, sel.hdr)] = INULL
                  THEN "SacInvalidContentError" ELSE "none"
    ELSE "SacInvalidContentError"

\* the test of one name
check(name, hf, hi, data, python, ran) ==
    CASE name = "delta"     -> check_delta(hf)
      [] name = "logicals"  -> check_logicals(hi)
      [] name = "data_hdrs" -> check_data_hdrs(hf, data)
      [] name = "enums"     -> check_enums(hi)
      [] name = "reftime"   -> check_reftime(hi)
      [] name = "reltime"   -> check_reltime(hf, hi, python, ran)

\* lines 563-638: the tests that were asked for, in the order of the code,
\* up to the first that raises; ran lists the tests that were started
RECURSIVE run_checks(_, _, _, _, _, _, _)
run_checks(tests, hf, hi, data, python, ran, k) ==
    IF k > Len(ALL) THEN [exc |-> "none", ran |-> ran]
    ELSE IF ~InSeq(ALL[k], tests)
    THEN run_checks(tests, hf, hi, data, python, ran, k + 1)
    ELSE LET now == Append(ran, ALL[k])
             exc == check(ALL[k], hf, hi, data, python, ran)
         IN  IF exc # "none" THEN [exc |-> exc, ran |-> now]
             ELSE run_checks(tests, hf, hi, data, python, now, k + 1)

\* lines 554-555
select_tests(tests) == IF InSeq("all", tests) THEN ALL ELSE tests

\* lines 552-638
validate_sac_content(hf, hi, hs, data, tests, python) ==
    LET sel == select_tests(tests)
    IN  IF Len(sel) = 0 THEN [exc |-> "ValueError", ran |-> <<>>]
        ELSE IF \E k \in 1..Len(sel) : ~InSeq(sel[k], ALL)
        THEN [exc |-> "ValueError", ran |-> <<>>]
        ELSE run_checks(sel, hf, hi, data, python, <<>>, 1)

-----------------------------------------------------------------------------
(* The validation specification: header arrays and data are checked with a *)
(* tuple of test names                                                      *)

\* the reference times: unset, 2020-001 00:00:00 with 0, 12 and 13 in nzmsec,
\* day 366 of 2021, and a time without nzmsec
RefTimes ==
    { <<INULL, INULL, INULL, INULL, INULL, INULL>>,
      <<2020, 1, 0, 0, 0, 0>>, <<2020, 1, 0, 0, 0, 12>>, <<2020, 1, 0, 0, 0, 13>>,
      <<2021, 366, 0, 0, 0, 0>>, <<2020, 1, 0, 0, 0, INULL>> }

\* the data arrays: None, empty, and MaxNpts samples
ValidateDatas(order) ==
    { NoneArr, SampleData(0, 0, order), SampleData(MaxNpts, 0, order) }

\* the data headers
DepHdrs == {"depmin", "depmax", "depmen"}

\* a float header with delta, the data headers of dep taken from the data and
\* the others left null, and b, o, a
validate_hf(order, delta, dep, data, ref) ==
    [order |-> order,
     vals  |-> [i \in 1..70 |->
                  CASE FLOATHDRS[i] = "delta" -> delta
                    [] FLOATHDRS[i] \in DepHdrs ->
                         IF FLOATHDRS[i] \notin dep \/ data = NoneArr \/ Len(data.vals) = 0
                         THEN FNULL
                         ELSE IF FLOATHDRS[i] = "depmin" THEN data_min(data.vals)
                         ELSE IF FLOATHDRS[i] = "depmax" THEN data_max(data.vals)
                         ELSE data_mean(data.vals)
                    [] FLOATHDRS[i] \in {"b", "o", "a"} -> ref
                    [] OTHER -> FNULL]]

\* an int header with a reference time, norid and nevid, leven, iftype, iztype
validate_hi(order, npts, reftime, ids, leven, iftype, iztype) ==
    [order |-> order,
     vals  |-> [i \in 1..40 |->
                  CASE i <= 6 -> reftime[i]
                    [] INTHDRS[i] = "nvhdr" -> 6
                    [] INTHDRS[i] = "npts" -> npts
                    [] INTHDRS[i] \in {"norid", "nevid"} -> ids
                    [] INTHDRS[i] = "leven" -> leven
                    [] INTHDRS[i] = "iftype" -> iftype
                    [] INTHDRS[i] = "iztype" -> iztype
                    [] OTHER -> init_hi_item(i)]]

\* the arguments hf, hi, hs, data of a call
ValidateArgs(order, delta, dep, data, ref, reftime, ids, leven, iftype, iztype) ==
    [hf   |-> validate_hf(order, delta, dep, data, ref),
     hi   |-> validate_hi(order, IF data = NoneArr THEN 0 ELSE Len(data.vals),
                          reftime, ids, leven, iftype, iztype),
     hs   |-> sample_hs,
     data |-> data]

\* content that passes every test but for delta, the data headers, the data,
\* leven and iftype; and content that passes every test but for the
\* reference time, the type of the reference and the fields it may select
ValidateInputs(order) ==
    { ValidateArgs(order, delta, dep, data, 0, <<2020, 1, 0, 0, 0, 0>>, 7, fl[1], fl[2], 9) :
        delta \in {SampleWord(1), FNULL}, dep \in SUBSET DepHdrs,
        data \in ValidateDatas(order), fl \in {<<1, 1>>, <<2, 1>>, <<1, 99>>} }
    \cup
    { ValidateArgs(order, SampleWord(1), DepHdrs, SampleData(MaxNpts, 0, order),
                   ref, reftime, ids, 1, 1, iztype) :
        ref \in {0, FNULL}, reftime \in RefTimes, ids \in {7, INULL},
        iztype \in {INULL, 5, 9, 11, 12, 13, 99} }

\* the tuples of test names
TestTuples ==
    { <<>>, <<"delta">>, <<"logicals">>, <<"data_hdrs">>, <<"enums">>,
      <<"reftime">>, <<"reltime">>, <<"all">>, <<"bogus">>,
      <<"all", "bogus">>, <<"bogus", "all">>, <<"delta", "bogus">>,
      <<"reftime", "reltime">>, <<"logicals", "reftime", "reltime">> }

\* the Python versions the module runs under
PyVersions == {2, 3}

InitValidate ==
    /\ native \in {"little", "big"}
    /\ disk = [exists |-> FALSE, bytes |-> <<>>]
    /\ stream = [open |-> FALSE, pos |-> 0, mode |-> "rb"]
    /\ arg \in ValidateInputs(NativeChar)
    /\ pc = "idle"
    /\ call = NoCall

\* validate_sac_content(hf, hi, hs, data, *tests)
ValidateSacContent ==
    /\ pc = "idle"
    /\ \E tests \in TestTuples, python \in PyVersions :
          call' = [op |-> "validate_sac_content", tests |-> tests, python |-> python,
                   out |-> validate_sac_content(arg.hf, arg.hi, arg.hs, arg.data,
                                                tests, python)]
    /\ pc' = "returned"
    /\ UNCHANGED <<native, disk, stream, arg>>

NextValidate == ValidateSacContent

SpecValidate == InitValidate /\ [][NextValidate]_vars

-----------------------------------------------------------------------------
(* Numbers as text: the fields np.savetxt writes and np.array parses        *)
(*                                                                         *)
(* A field is kept as what its characters say: a '%#15.7g' field is the    *)
(* decimal number neg, m, e (m * 10^e, m without trailing zeros), a        *)
(* '%.18e' field names one float32 exactly (19 significant digits), a      *)
(* '%10d' field is its integer.                                            *)

RECURSIVE Pow10(_)
Pow10(n) == IF n = 0 THEN 1 ELSE 10 * Pow10(n - 1)

\* the number of decimal digits of n > 0
RECURSIVE NumDigits(_)
NumDigits(n) == IF n < 10 THEN 1 ELSE 1 + NumDigits(n \div 10)

\* n / d rounded to the nearest integer, ties to even
RoundDiv(n, d) ==
    LET q == n \div d
        r == n % d
    IN  IF 2 * r > d \/ (2 * r = d /\ q % 2 = 1) THEN q + 1 ELSE q

\* m * 10^e with the trailing zeros of m moved into e
RECURSIVE StripZeros(_, _)
StripZeros(m, e) ==
    IF m # 0 /\ m % 10 = 0 THEN StripZeros(m \div 10, e + 1) ELSE [m |-> m, e |-> e]

\* '%#15.7g' % x: x rounded to 7 significant digits, for a float32 that is
\* a multiple of 1/4 of magnitude below 2^24 * 1.25
fmt_g7(bits) ==
    LET q   == Quarters(bits)
        n   == 25 * (IF q < 0 THEN -q ELSE q)
        cut == IF n = 0 THEN 0 ELSE NumDigits(n) - 7
        dec == IF cut <= 0 THEN StripZeros(n, -2)
               ELSE StripZeros(RoundDiv(n, Pow10(cut)), cut - 2)
    IN  [fmt |-> "g", neg |-> q < 0, m |-> dec.m, e |-> dec.e]

\* '%.18e' % x
fmt_e18(bits) == [fmt |-> "e", bits |-> bits]

\* '%10d' % n
fmt_d(n) == [fmt |-> "d", n |-> n]

\* the number of characters of str(n)
chars_d(n) ==
    IF n = 0 THEN 1 ELSE IF n < 0 THEN 1 + NumDigits(-n) ELSE NumDigits(n)

\* a number that was parsed, and a field that is no number (ValueError)
Parsed(v) == [ok |-> TRUE, v |-> v]
NotParsed == [ok |-> FALSE, v |-> 0]

\* the float32 a field is parsed to
parse_f4(tok) ==
    CASE tok.fmt = "e" -> Parsed(tok.bits)
      [] tok.fmt = "g" ->
           LET mag == IF tok.e >= 0 THEN F32Round(tok.m * Pow10(tok.e), 1)
                      ELSE F32Round(tok.m, Pow10(-tok.e))
           IN  Parsed(IF tok.neg THEN (mag - 2147483647) - 1 ELSE mag)
      [] tok.fmt = "d" ->
           Parsed(IF tok.n < 0 THEN (F32Round(-tok.n, 1) - 2147483647) - 1
                  ELSE F32Round(tok.n, 1))
      [] OTHER -> NotParsed

\* the int32 a field is parsed to
parse_i4(tok) == IF tok.fmt = "d" THEN Parsed(tok.n) ELSE NotParsed

\* the number of dtype '<f4' or '<i4' a field is parsed to
parse_as(dtype, tok) == IF dtype = "<f4" THEN parse_f4(tok) ELSE parse_i4(tok)

-----------------------------------------------------------------------------
(* The ASCII file: a sequence of lines.  A line of numbers is kept as the  *)
(* fields that split() finds in it, a line of strings as its characters.   *)

num_line(toks) == [kind |-> "num", toks |-> toks]
str_line(chars) == [kind |-> "str", chars |-> chars]

\* np.savetxt(f, np.reshape(x, (rows, 5)), fmt='%#15.7g', delimiter=''):
\* a field has at most 13 characters, so the fields of a line stay apart
savetxt_g7(vals, rows) ==
    [r \in 1..rows |-> num_line([c \in 1..5 |-> fmt_g7(vals[5 * (r - 1) + c])])]

\* the fields of one line of '%10d' integers: an integer of 10 characters or
\* more runs into the field before it
RECURSIVE join_d(_, _)
join_d(ns, k) ==
    IF k > Len(ns) THEN <<>>
    ELSE IF k < Len(ns) /\ chars_d(ns[k + 1]) >= 10
         THEN <<[fmt |-> "run"]>> \o Tail(join_d(ns, k + 1))
         ELSE <<fmt_d(ns[k])>> \o join_d(ns, k + 1)

\* np.savetxt(f, np.reshape(hi, (8, 5)), fmt='%10d', delimiter='')
savetxt_d(vals) ==
    [r \in 1..8 |-> num_line(join_d(SubSeq(vals, 5 * (r - 1) + 1, 5 * r), 1))]

\* '%-8s' % item: the item itself under Python 2, where it is a str, and
\* its repr b'...' under Python 3, where it is a numpy.bytes_
fmt_s8(item, python) ==
    Pad8(IF python = 3 THEN <<98, 39>> \o S8Item(item) \o <<39>> ELSE S8Item(item))

\* np.savetxt(f, np.reshape(hs, (8, 3)), fmt='%-8s', delimiter='')
savetxt_s8(hs, python) ==
    [r \in 1..8 |-> str_line(fmt_s8(hs[3 * (r - 1) + 1], python)
                             \o fmt_s8(hs[3 * (r - 1) + 2], python)
                             \o fmt_s8(hs[3 * (r - 1) + 3], python))]

\* np.savetxt(f, x, delimiter=b'\t') of a 1-D array x: savetxt takes a 1-D
\* array as a column and writes each value, as '%.18e', on a line of its own
savetxt_1d(vals) ==
    [k \in 1..Len(vals) |-> num_line(<<fmt_e18(vals[k])>>)]

\* the lines written from the start of a file that holds the lines old
put_lines(old, new) == new \o SubSeq(old, Len(new) + 1, Len(old))

-----------------------------------------------------------------------------
(* write_sac_ascii *)

AOutcome(exc, lines, closed, warned) ==
    [exc |-> exc, lines |-> lines, closed |-> closed, warned |-> warned]

\* lines 418-434: the data section, for npts >= 0 or null
ascii_data_lines(npts, data) ==
    LET rows == npts \div 5
    IN  IF npts \in {INULL, 0} THEN [exc |-> "none", lines |-> <<>>]
        ELSE IF 5 * rows > Len(data.vals)
        THEN \* np.reshape raises: fewer than 5 * rows values
             [exc |-> "SacIOError", lines |-> <<>>]
        ELSE [exc |-> "none",
              lines |-> savetxt_g7(data.vals, rows)
                        \o savetxt_1d(SubSeq(data.vals, 5 * rows + 1, Len(data.vals)))]

\* lines 402-434, on the stream f that holds the lines old: mode is f.mode
write_sac_ascii(old, mode, is_file_name, hf, hi, hs, data, python) ==
    LET warned == data = NoneArr /\ mode # "r+"
    IN  IF Len(hf.vals) # 70 \/ Len(hi.vals) # 40 \/ Len(hs) # 24
        THEN \* np.reshape raises; line 416 raises a tuple, which Python 2
             \* takes as its first item and Python 3 rejects
             AOutcome(IF python = 3 THEN "TypeError" ELSE "ValueError",
                      old, is_file_name, warned)
        ELSE LET header == savetxt_g7(hf.vals, 14) \o savetxt_d(hi.vals)
                           \o savetxt_s8(hs, python)
             IN  IF data = NoneArr
                 THEN AOutcome("none", put_lines(old, header), is_file_name, warned)
                 ELSE LET sect == ascii_data_lines(hi.vals[10], data)
                      IN  IF sect.exc # "none"
                          THEN AOutcome(sect.exc, put_lines(old, header), TRUE, warned)
                          ELSE AOutcome("none", put_lines(old, header \o sect.lines),
                                        is_file_name, warned)

-----------------------------------------------------------------------------
(* read_sac_ascii *)

\* np.array([i.split() for i in lines], dtype=...).ravel(): the parsed
\* fields; ValueError for lines of different numbers of fields and for a
\* field that is no number
parse_lines(lines, dtype) ==
    IF \E k \in 1..Len(lines) :
           \/ lines[k].kind # "num"
           \/ Len(lines[k].toks) # Len(lines[1].toks)
           \/ \E c \in 1..Len(lines[k].toks) : ~parse_as(dtype, lines[k].toks[c]).ok
    THEN NotParsed
    ELSE IF Len(lines) = 0 THEN Parsed(<<>>)
    ELSE Parsed([j \in 1..(Len(lines) * Len(lines[1].toks)) |->
                   LET w == Len(lines[1].toks)
                   IN  parse_as(dtype, lines[((j - 1) \div w) + 1].toks[((j - 1) % w) + 1]).v])

\* lines 256-259: np.fromstring(line, dtype='|S8', count=3) of the 8 lines
\* of strings; ValueError for a line of fewer than 24 characters
parse_s8(lines) ==
    IF \E k \in 1..Len(lines) : lines[k].kind # "str" \/ Len(lines[k].chars) < 24
    THEN NotParsed
    ELSE Parsed([j \in 1..24 |->
                   S8Store(SubSeq(lines[((j - 1) \div 3) + 1].chars,
                                  8 * ((j - 1) % 3) + 1, 8 * ((j - 1) % 3) + 8))])

\* lines 232-278, on the lines of the file
read_sac_ascii(lines, is_file_name, headonly) ==
    IF Len(lines) < 30 THEN Raised("SacIOError", FALSE, 0)
    ELSE LET hf == parse_lines(SubSeq(lines, 1, 14), "<f4")
             hi == parse_lines(SubSeq(lines, 15, 22), "<i4")
             hs == parse_s8(SubSeq(lines, 23, 30))
             data == parse_lines(SubSeq(lines, 31, Len(lines)), "<f4")
         IN  IF ~hf.ok \/ ~hi.ok \/ ~hs.ok
             THEN Raised("ValueError", FALSE, 0)
             ELSE IF headonly
             THEN Outcome("none", [order |-> "<", vals |-> hf.v],
                          [order |-> "<", vals |-> hi.v], hs.v, NoneArr, is_file_name, 0)
             ELSE IF ~data.ok THEN Raised("ValueError", FALSE, 0)
             ELSE IF Len(hi.v) < 10 THEN Raised("IndexError", FALSE, 0)
             ELSE IF Len(data.v) # hi.v[10] THEN Raised("SacIOError", is_file_name, 0)
             ELSE Outcome("none", [order |-> "<", vals |-> hf.v],
                          [order |-> "<", vals |-> hi.v], hs.v,
                          [order |-> "<", vals |-> data.v], is_file_name, 0)

-----------------------------------------------------------------------------
(* The ASCII specification: one write_sac_ascii to a path or to the        *)
(* caller's stream, then a read_sac_ascii of the file                       *)

\* 1.0, 2.5, -1.0 and 16777218.0, which has more than 7 significant digits
AsciiWord(k) ==
    <<1065353216, 1075838976, -1082130432, 1266679809>>[((k - 1) % 4) + 1]

AsciiData(n) == [order |-> NativeChar, vals |-> [i \in 1..n |-> AsciiWord(i)]]

\* the npts a header may hold beside the length n of the data
AsciiNpts(n) == {n, INULL} \cup (IF n >= 5 THEN {n - 5, n + 5} ELSE {n + 1})

\* a file written before: header lines with npts = 2 and two lines of data
OldLines ==
    savetxt_g7(sample_hf("<").vals, 14) \o savetxt_d(sample_hi("<", 6, 2).vals)
    \o savetxt_s8(sample_hs, 2) \o savetxt_1d(AsciiData(2).vals)

InitAscii ==
    /\ native \in {"little", "big"}
    /\ stream \in { [open |-> FALSE, pos |-> 0, mode |-> "r+"],
                    [open |-> TRUE, pos |-> 0, mode |-> "r+"],
                    [open |-> TRUE, pos |-> 0, mode |-> "w+"] }
    /\ disk \in { [exists |-> FALSE, lines |-> <<>>], [exists |-> TRUE, lines |-> OldLines],
                  [exists |-> TRUE, lines |-> <<>>] }
    /\ stream.open => disk.exists
    /\ (stream.open /\ stream.mode = "w+") => disk.lines = <<>>
    /\ arg = NoArg
    /\ pc = "idle"
    /\ call = NoCall

\* the record of a write_sac_ascii call
AsciiCall(dest, hi, data, python, out) ==
    [op |-> "write_sac_ascii", dest |-> dest, hi |-> hi, data |-> data,
     python |-> python, before |-> disk, out |-> out]

\* write_sac_ascii(path, hf, hi, hs, data)
WriteSacAsciiPath ==
    /\ pc = "idle"
    /\ ~stream.open
    /\ \E n \in 0..MaxAsciiNpts, python \in PyVersions, with_data \in BOOLEAN :
       \E npts \in AsciiNpts(n) :
          LET data == IF with_data THEN AsciiData(n) ELSE NoneArr
              hi   == sample_hi(NativeChar, 6, npts)
          IN  IF ~with_data /\ ~disk.exists
              THEN \* open(dest, 'r+') raises IOError
                   /\ call' = AsciiCall("path", hi, data, python,
                                        AOutcome("SacIOError", <<>>, TRUE, FALSE))
                   /\ disk' = disk
              ELSE LET mode == IF with_data THEN "w+" ELSE "r+"
                       out == write_sac_ascii(IF with_data THEN <<>> ELSE disk.lines,
                                              mode, TRUE, sample_hf(NativeChar),
                                              hi, sample_hs, data, python)
                   IN  /\ call' = AsciiCall("path", hi, data, python, out)
                       /\ disk' = [exists |-> TRUE, lines |-> out.lines]
    /\ pc' = "returned"
    /\ UNCHANGED <<native, stream, arg>>

\* write_sac_ascii(f, hf, hi, hs, data) on the caller's stream
WriteSacAsciiStream ==
    /\ pc = "idle"
    /\ stream.open
    /\ \E n \in 0..MaxAsciiNpts, python \in PyVersions, with_data \in BOOLEAN :
       \E npts \in AsciiNpts(n) :
          LET data == IF with_data THEN AsciiData(n) ELSE NoneArr
              hi   == sample_hi(NativeChar, 6, npts)
              out  == write_sac_ascii(disk.lines, stream.mode, FALSE, sample_hf(NativeChar),
                                      hi, sample_hs, data, python)
          IN  /\ call' = AsciiCall("stream", hi, data, python, out)
              /\ disk' = [exists |-> TRUE, lines |-> out.lines]
              /\ stream' = [stream EXCEPT !.open = ~out.closed]
    /\ pc' = "returned"
    /\ UNCHANGED <<native, arg>>

\* read_sac_ascii(path, headonly) after the write
ReadSacAscii ==
    /\ pc = "returned"
    /\ call.op = "write_sac_ascii"
    /\ disk.exists
    /\ \E headonly \in BOOLEAN :
          call' = [op |-> "read_sac_ascii", headonly |-> headonly, after |-> call,
                   out |-> read_sac_ascii(disk.lines, TRUE, headonly)]
    /\ pc' = "readback"
    /\ UNCHANGED <<native, disk, stream, arg>>

NextAscii ==
    \/ WriteSacAsciiPath
    \/ WriteSacAsciiStream
    \/ ReadSacAscii

SpecAscii == InitAscii /\ [][NextAscii]_vars

-----------------------------------------------------------------------------
(* Properties of the dictionary converters, checked under SpecDict *)

\* a mapping has been turned into arrays and back without the null values
Converted == pc = "converted" /\ ~call.nulls

\* the key is in the mapping, with that value
Has(items, key, val) == key \in Keys(items) /\ Lookup(items, key) = val

\* the null value of the field
NullOf(key) ==
    IF InSeq(key, FLOATHDRS) THEN FloatVal(FNULL)
    ELSE IF InSeq(key, INTHDRS) THEN IntVal(INULL)
    ELSE SNULL

\* the field holds the value as it was given: a float that is a float32, an
\* integer, a string of at most 8 characters
Representable(key, val) ==
    IF InSeq(key, FLOATHDRS) THEN val.exact
    ELSE IF InSeq(key, INTHDRS) THEN val.integral
    ELSE Len(val) <= 8

\* the two keys of the event name
NameKeys == {"kevnm", "kevnm2"}

\* the logical fields and the values init_header_arrays gives them
LogicalDefaults ==
    << Item("leven", IntVal(0)), Item("lpspol", IntVal(0)),
       Item("lovrok", IntVal(0)), Item("lcalda", IntVal(1)) >>

\* the mapping holds only values its fields can represent
AllRepresentable(items) ==
    \A k \in 1..Len(items) : Representable(items[k].key, items[k].val)

\* C8 as stated: the result of dict_to_header_arrays followed by
\* header_arrays_to_dict(nulls=False) is exactly the non-null subset of the
\* mapping, the event name aside: no key that was absent from the mapping
\* appears in the result, and every key with a non-null value appears with
\* that value.  (Stated here for mappings of representable values.)
C8_AsStated ==
    (Converted /\ AllRepresentable(call.header)) =>
        /\ \A key \in Keys(call.out) \ NameKeys : key \in Keys(call.header)
        /\ \A key \in Keys(call.header) \ NameKeys :
              Lookup(call.header, key) # NullOf(key) =>
                  Has(call.out, key, Lookup(call.header, key))

\* C8, amended: apart from the event name, the result holds every key of the
\* mapping whose value is representable and not null, with that value, no key
\* whose value is null, and, of the keys absent from the mapping, exactly the
\* four logical fields, with their defaults 0, 0, 0 and 1.
C8_NonNullSubsetAndDefaults ==
    Converted =>
        /\ \A key \in Keys(call.header) \ NameKeys :
              LET val == Lookup(call.header, key)
              IN  Representable(key, val) =>
                      IF val = NullOf(key) THEN key \notin Keys(call.out)
                      ELSE Has(call.out, key, val)
        /\ \A key \in Keys(call.out) \ (NameKeys \cup Keys(call.header)) :
              key \in Keys(LogicalDefaults)
        /\ \A k \in 1..Len(LogicalDefaults) :
              LogicalDefaults[k].key \notin Keys(call.header) =>
                  Has(call.out, LogicalDefaults[k].key, LogicalDefaults[k].val)

\* C8 witness: a mapping with a float, a null string and no logical field has
\* been converted, and the result has the float, not the string, and leven
C8_Witness ==
    /\ Converted
    /\ Has(call.header, "delta", FloatVal(SampleWord(1)))
    /\ Has(call.header, "kstnm", SNULL)
    /\ "leven" \notin Keys(call.header)
    /\ Has(call.out, "delta", FloatVal(SampleWord(1)))
    /\ "kstnm" \notin Keys(call.out)
    /\ Has(call.out, "leven", IntVal(0))

\* C9 as stated: an event name of 16 characters given under 'kevnm' comes back
\* unchanged, and a name of 8 characters or fewer comes back with no 'kevnm2'
\* key and with 'kevnm' equal to the name that was given.  (Stated here for
\* names of at least one character.)
C9_AsStated ==
    (pc = "converted" /\ "kevnm" \in Keys(call.header)
                      /\ "kevnm2" \notin Keys(call.header)) =>
        LET name == Lookup(call.header, "kevnm")
        IN  /\ Len(name) = 16 => Has(call.out, "kevnm", name)
            /\ Len(name) \in 1..8 => /\ "kevnm2" \notin Keys(call.out)
                                      /\ Has(call.out, "kevnm", name)

-----------------------------------------------------------------------------
(* Properties of validate_sac_content, checked under SpecValidate *)

\* validate_sac_content has returned or raised
Validated == pc = "returned" /\ call.op = "validate_sac_content"

\* the names a test tuple may hold
TestNames == {ALL[k] : k \in 1..Len(ALL)} \cup {"all"}

\* C10 as stated: a call whose test tuple holds a name outside delta,
\* logicals, data_hdrs, enums, reftime, reltime and all raises ValueError and
\* runs no check, also when the tuple holds 'all' as well.
C10_AsStated ==
    (Validated /\ \E k \in 1..Len(call.tests) : call.tests[k] \notin TestNames) =>
        /\ call.out.exc = "ValueError"
        /\ call.out.ran = <<>>

\* the data test alone has been asked for
DataHdrsOnly == Validated /\ call.tests = <<"data_hdrs">>

\* the header field equals the float32 number
HdrIs(name, x) == F32Eq(hf_get(arg.hf, name), x)

\* depmin, depmax and depmen equal the minimum, maximum and mean of the data
DataHdrsMatch ==
    /\ HdrIs("depmin", data_min(arg.data.vals))
    /\ HdrIs("depmax", data_max(arg.data.vals))
    /\ HdrIs("depmen", data_mean(arg.data.vals))

RelTimeOnly == Validated /\ call.tests = <<"reltime">>

\* the float header field a reference type selects: b, o, a, or one of the
\* ten time picks for the types it0..it9
SelectedHdr(iztype_val) ==
    CASE iztype_val = 9  -> "b"
      [] iztype_val = 11 -> "o"
      [] iztype_val = 12 -> "a"
      [] iztype_val \in 13..22 -> FLOATHDRS[Index(FLOATHDRS, "t0") + (iztype_val - 13)]

\* C12 as stated: the reltime test raises SacInvalidContentError for an
\* invalid or null iztype; for a valid iztype it raises nothing but
\* SacInvalidContentError, and for the types 9, 11, 12 and 13..22 it raises
\* it exactly when the float header field the type selects is the float null.
C12_AsStated ==
    RelTimeOnly =>
        LET iztype_val == hi_get(arg.hi, "iztype")
        IN  IF ~is_valid_enum_int("iztype", iztype_val, FALSE)
            THEN call.out.exc = "SacInvalidContentError"
            ELSE /\ call.out.exc \in {"none", "SacInvalidContentError"}
                 /\ iztype_val \in {9, 11, 12} \cup (13..22) =>
                       (call.out.exc = "SacInvalidContentError"
                           <=> hf_get(arg.hf, SelectedHdr(iztype_val)) = FNULL)

-----------------------------------------------------------------------------
(* Properties of the ASCII codec, checked under SpecAscii *)

\* the write_sac_ascii call that was made
AsciiWrite == IF pc = "readback" THEN call.after ELSE call

\* write_sac_ascii(path, hf, hi, hs, data) has written data whose length is
\* the npts of the header, or under a header whose npts is null or zero
AsciiWritten ==
    /\ pc \in {"returned", "readback"}
    /\ AsciiWrite.op = "write_sac_ascii"
    /\ AsciiWrite.dest = "path"
    /\ AsciiWrite.data # NoneArr
    /\ hi_get(AsciiWrite.hi, "npts") \in {INULL, 0, Len(AsciiWrite.data.vals)}

\* the lines of the file after the 30 lines of the header
DataSection == SubSeq(disk.lines, 31, Len(disk.lines))

\* C13 as stated: write_sac_ascii with data writes the 30 header lines only
\* when npts is null or zero; otherwise it writes floor(npts/5) lines of 5
\* values and, when npts mod 5 is not zero, one more line with the npts mod 5
\* values that remain, and read_sac_ascii of the file returns npts values.
\* (Stated here for data of npts values.)
C13_AsStated ==
    AsciiWritten =>
        LET npts == hi_get(AsciiWrite.hi, "npts")
            rows == npts \div 5
            rem  == npts % 5
        IN  IF npts \in {INULL, 0} THEN Len(disk.lines) = 30
            ELSE /\ Len(DataSection) = rows + (IF rem > 0 THEN 1 ELSE 0)
                 /\ \A r \in 1..rows : Len(DataSection[r].toks) = 5
                 /\ rem > 0 => Len(DataSection[rows + 1].toks) = rem
                 /\ (pc = "readback" /\ ~call.headonly) =>
                       /\ call.out.exc = "none"
                       /\ Len(call.out.data.vals) = npts

====
